---------------------------- MODULE Spec2Model ----------------------------
(***************************************************************************)
(* A model of bin/user/aurora.py, the weewx driver for the Power One       *)
(* Aurora inverter: the CRC16 checksum, the command frame, the retrying    *)
(* request/response exchange of AuroraInverter.send_cmd_with_crc and the   *)
(* response decoders, and the AuroraDriver that opens the port, polls the  *)
(* inverter and closes the port.                                           *)
(*                                                                         *)
(* Python values are tagged records [t |-> type, v |-> value]; byte        *)
(* strings are sequences of integers 0..255.                               *)
(*                                                                         *)
(* Four specifications share the variables:                                *)
(*   SpecCrc  crc16 run step by step, the CRC appended, strip_crc16        *)
(*   Spec     one call of send_cmd_with_crc against any transport          *)
(*   SpecDec  one decoder applied to one payload                           *)
(*   SpecDrv  an AuroraDriver: __init__, genLoopPackets,                   *)
(*            get_cumulated_energy, closePort                              *)
(***************************************************************************)
EXTENDS Integers, Sequences, FiniteSets, TLC

VARIABLES
    \* ---- the CRC computation and strip_crc16 (checksum specification)
    buf,        \* the byte string handed to crc16
    crcPc,      \* position inside crc16 / the frame round trip
    crcReg,     \* the local crc of crc16
    crcIdx,     \* index of the byte being processed (1-based)
    crcBit,     \* the inner loop variable i
    crcByte,    \* the local _byte of crc16
    crcOut,     \* the value crc16 returned
    frame,      \* buf followed by its CRC bytes, possibly corrupted
    flipped,    \* the bit of frame that was flipped, -1 when none
    stripOut,   \* the outcome of strip_crc16(frame)
    \* ---- one call of send_cmd_with_crc (request specification)
    pc,         \* position inside send_cmd_with_crc
    reading,    \* argument reading
    globall,    \* argument globall
    address,    \* argument address
    max_tries,  \* argument max_tries
    count,      \* the loop variable count
    cmdFrame,   \* the local _data_with_crc
    nWrites,    \* calls of serial_port.write made so far
    nReads,     \* calls of serial_port.read made so far
    lastWrite,  \* the bytes handed to the latest serial_port.write
    lastIo,     \* what the latest transport event was
    resp,       \* the latest 8 byte response read
    crcRejects, \* responses strip_crc16 rejected so far
    caught,     \* the error the except clause swallowed latest, "-" when none
    outcome,    \* how the call ended
    \* ---- one call of a decoder (decoder specification)
    decFn,      \* the decoder applied
    decIn,      \* the payload it is given
    decOut,     \* its outcome
    \* ---- the life of an AuroraDriver (driver specification)
    drvPc,        \* position of the driver: __init__, genLoopPackets, ended
    drvMaxTries,  \* self.max_tries
    port,         \* the serial port of the inverter: "none", "open", "closed"
    nOpens,       \* serial ports opened so far
    nCloses,      \* calls of serial_port.close() made so far
    setupIdx,     \* requests of _setup answered so far
    loopCount,    \* the loop variable count of genLoopPackets
    nPolls,       \* polls genLoopPackets has made so far
    drvOutcome,   \* how __init__ or genLoopPackets ended
    closePc,      \* position inside close_port
    nCancels,     \* writes close_port made so far
    cancelData,   \* the bytes close_port handed to write latest
    cancelWrite,  \* what the write inside close_port did latest
    closeOut,     \* how close_port ended latest
    nFailed,      \* polls of genLoopPackets that ended in an IOError so far
    failsAtYield, \* the value of nFailed when the latest packet was yielded
    packet,       \* the packet genLoopPackets yielded latest
    last_energy,  \* self.last_energy
    cumPc,        \* position inside get_cumulated_energy
    cumPeriod,    \* argument period of get_cumulated_energy
    cumEnergy,    \* the local _energy of get_cumulated_energy while it runs
    cumAsked,     \* the set of the names get_cumulated_energy passed to do_cmd
    cumOut        \* how get_cumulated_energy ended

crcVars  == <<buf, crcPc, crcReg, crcIdx, crcBit, crcByte, crcOut, frame,
              flipped, stripOut>>
execVars == <<pc, reading, globall, address, max_tries, count, cmdFrame,
              nWrites, nReads, lastWrite, lastIo, resp, crcRejects, caught,
              outcome>>
decVars  == <<decFn, decIn, decOut>>
drvVars  == <<drvPc, drvMaxTries, port, nOpens, nCloses, setupIdx, loopCount,
              nPolls, drvOutcome, closePc, nCancels, cancelData, cancelWrite,
              closeOut, nFailed, failsAtYield, packet, last_energy, cumPc,
              cumPeriod, cumEnergy, cumAsked, cumOut>>
vars     == <<crcVars, execVars, decVars, drvVars>>

-----------------------------------------------------------------------------
(* Bounds of the model. *)

\* longest byte string given to crc16 in the checksum specification
MaxBufLen == 3
\* largest max_tries argument tried in the request specification
MaxTries == 3

\* byte values the checksum specification draws its longer inputs from (every
\* byte value is tried as a one byte input)
CrcBytes == {0, 1, 90, 128, 255}

-----------------------------------------------------------------------------
(* Python values. *)

None       == [t |-> "None", v |-> 0]
PyInt(n)   == [t |-> "int", v |-> n]
PyStr(s)   == [t |-> "str", v |-> s]
PyTuple(s) == [t |-> "tuple", v |-> s]
PyFloat(w) == [t |-> "float", v |-> w]

\* a dict is the set of its items [k |-> key, v |-> value]
PyDict(items)    == [t |-> "dict", v |-> items]
HasKey(d, k)     == \E e \in d : e.k = k
DictGet(d, k)    == (CHOOSE e \in d : e.k = k).v
DictSet(d, k, x) == {e \in d : e.k # k} \cup {[k |-> k, v |-> x]}

\* a str given by its text, as the names of readings and periods are
PyName(s) == [t |-> "name", v |-> s]

\* how a call ends: it returns a value or raises an error; Pending: not yet
Return(x) == [kind |-> "return", value |-> x, err |-> "-"]
Raise(e)  == [kind |-> "raise", value |-> None, err |-> e]
Pending   == [kind |-> "pending", value |-> None, err |-> "-"]

\* ResponseTuple(transmission_state, global_state, data)
ResponseTuple(ts, gs, data) == [t |-> "ResponseTuple", v |-> <<ts, gs, data>>]

\* s[a:b] of Python for 0 <= a <= b (0-based, b exclusive, clipped)
Slice(s, a, b) ==
    LET hi == IF b < Len(s) THEN b ELSE Len(s)
    IN  IF a >= hi THEN <<>> ELSE SubSeq(s, a + 1, hi)

\* s[:-2] and s[-2:] of Python
DropLast2(s) == IF Len(s) <= 2 THEN <<>> ELSE SubSeq(s, 1, Len(s) - 2)
Last2(s)     == IF Len(s) <= 2 THEN s ELSE SubSeq(s, Len(s) - 1, Len(s))

-----------------------------------------------------------------------------
(* Integer bit operations. *)

\* a ^ b bit by bit, for a, b >= 0
RECURSIVE XorBits(_, _)
XorBits(a, b) ==
    IF a = 0 THEN b
    ELSE IF b = 0 THEN a
    ELSE (((a % 2) + (b % 2)) % 2) + (2 * XorBits(a \div 2, b \div 2))

\* the table of a ^ b for a, b in 0..15: XorTable[a + 1][b + 1]
RECURSIVE XorRow(_, _)
XorRow(a, b) == IF b > 15 THEN <<>> ELSE <<XorBits(a, b)>> \o XorRow(a, b + 1)
RECURSIVE XorRows(_)
XorRows(a) == IF a > 15 THEN <<>> ELSE <<XorRow(a, 0)>> \o XorRows(a + 1)
XorTable == XorRows(0)

\* a ^ b on Python integers a, b >= 0, four bits at a time
RECURSIVE BitXor(_, _)
BitXor(a, b) ==
    IF a = 0 THEN b
    ELSE IF b = 0 THEN a
    ELSE XorTable[(a % 16) + 1][(b % 16) + 1] + (16 * BitXor(a \div 16, b \div 16))

\* ~x & 0xffff on Python integers: ~x is -x - 1
NotMask16(x) == ((0 - x) - 1) % 65536

-----------------------------------------------------------------------------
(* AuroraInverter.crc16 *)

POLY == 33800
CrcSeed == 65535

\* the body of the inner loop for one bit: the pair (crc, _byte) after it
CrcBitStepWrongPoly(crc, byte) ==
    <<IF BitXor(crc % 2, byte % 2) # 0
        THEN BitXor(crc \div 2, CrcSeed)
        ELSE crc \div 2,
      byte \div 2>>

CrcBitStepNoShift(crc, byte) ==
    <<IF BitXor(crc % 2, byte % 2) # 0
        THEN BitXor(crc \div 2, POLY) % 65536
        ELSE crc \div 2,
      byte>>

CrcBitStep(crc, byte) ==
    <<IF BitXor(crc % 2, byte % 2) # 0
        THEN BitXor(crc \div 2, POLY) % 65536
        ELSE crc \div 2,
      byte \div 2>>

\* lines 802-807: the 8 passes of the inner loop over one byte, from pass i on
\* (the test on crc has the register evaluated before the next pass)
RECURSIVE CrcByteLoop(_, _, _)
CrcByteLoop(crc, byte, i) ==
    IF i = 8 \/ crc < 0 THEN crc
    ELSE LET s == CrcBitStep(crc, byte) IN CrcByteLoop(s[1], s[2], i + 1)

\* lines 801-807: the outer loop over the bytes of b, from byte k on
RECURSIVE CrcLoop(_, _, _)
CrcLoop(crc, b, k) ==
    IF k > Len(b) \/ crc < 0 THEN crc
    ELSE CrcLoop(CrcByteLoop(crc, b[k], 0), b, k + 1)

crc16(b) ==
    IF Len(b) = 0 THEN NotMask16(CrcSeed)
    ELSE NotMask16(CrcLoop(CrcSeed, b, 1))

(* AuroraInverter.word2struct *)
word2structHighFirst(i) == <<i \div 256, i % 256>>

word2struct(i) == <<i % 256, i \div 256>>

(* AuroraInverter.strip_crc16 *)
strip_crc16HighFirst(buffer) ==
    LET data      == DropLast2(buffer)
        crc_bytes == Last2(buffer)
        crc       == word2structHighFirst(crc16(data))
    IN  IF crc = crc_bytes THEN Return(PyStr(data)) ELSE Raise("CRCError")

strip_crc16(buffer) ==
    LET data      == DropLast2(buffer)
        crc_bytes == Last2(buffer)
        crc       == word2struct(crc16(data))
    IN  IF crc = crc_bytes THEN Return(PyStr(data)) ELSE Raise("CRCError")

-----------------------------------------------------------------------------
(* The checksum specification: crc16 run step by step over buf, the CRC   *)
(* appended as word2struct gives it, one bit of the frame possibly        *)
(* flipped on the line, and strip_crc16 applied to what arrives.          *)

RECURSIVE SeqsUpTo(_, _)
SeqsUpTo(S, n) ==
    IF n = 0 THEN {<<>>}
    ELSE LET shorter == SeqsUpTo(S, n - 1)
         IN  shorter \cup {Append(s, x) : s \in {r \in shorter : Len(r) = n - 1}, x \in S}

ExecIdle ==
    /\ pc = "off" /\ reading = "-" /\ globall = 0 /\ address = 0
    /\ max_tries = 0 /\ count = 0 /\ cmdFrame = <<>> /\ nWrites = 0
    /\ nReads = 0 /\ lastWrite = <<>> /\ lastIo = "-" /\ resp = <<>>
    /\ crcRejects = 0 /\ caught = "-" /\ outcome = Pending

CrcIdle ==
    /\ buf = <<>> /\ crcPc = "off" /\ crcReg = 0 /\ crcIdx = 0 /\ crcBit = 0
    /\ crcByte = 0 /\ crcOut = 0 /\ frame = <<>> /\ flipped = -1
    /\ stripOut = Pending

DecIdle == decFn = "-" /\ decIn = <<>> /\ decOut = Pending

DrvIdle ==
    /\ drvPc = "off" /\ drvMaxTries = 0 /\ port = "none" /\ nOpens = 0
    /\ nCloses = 0 /\ setupIdx = 0 /\ loopCount = 0 /\ nPolls = 0
    /\ drvOutcome = Pending /\ closePc = "-" /\ nCancels = 0
    /\ cancelData = <<>> /\ cancelWrite = Pending /\ closeOut = Pending
    /\ nFailed = 0 /\ failsAtYield = 0 /\ packet = None /\ last_energy = None
    /\ cumPc = "-" /\ cumPeriod = None /\ cumEnergy = {} /\ cumAsked = {}
    /\ cumOut = Pending

InitCrc ==
    /\ buf \in SeqsUpTo(CrcBytes, MaxBufLen) \cup {<<b>> : b \in 0 .. 255}
    /\ crcPc = "entry" /\ crcReg = CrcSeed /\ crcIdx = 0 /\ crcBit = 0
    /\ crcByte = 0 /\ crcOut = 0 /\ frame = <<>> /\ flipped = -1
    /\ stripOut = Pending
    /\ ExecIdle /\ DecIdle /\ DrvIdle

\* lines 785-798: the empty input returns at once, otherwise the bytes are unpacked
CrcEntry ==
    /\ crcPc = "entry"
    /\ IF Len(buf) = 0
         THEN /\ crcOut' = NotMask16(crcReg)
              /\ crcPc' = "returned"
              /\ UNCHANGED <<crcIdx, crcByte>>
         ELSE /\ crcPc' = "loop"
              /\ crcIdx' = 1
              /\ crcByte' = buf[1]
              /\ UNCHANGED crcOut
    /\ UNCHANGED <<buf, crcReg, crcBit, frame, flipped, stripOut>>
    /\ UNCHANGED <<execVars, decVars, drvVars>>

\* lines 801-807: one pass of the inner loop
CrcBit ==
    /\ crcPc = "loop"
    /\ LET s == CrcBitStep(crcReg, crcByte)
       IN  /\ crcReg' = s[1]
           /\ IF crcBit < 7
                THEN /\ crcBit' = crcBit + 1
                     /\ crcByte' = s[2]
                     /\ UNCHANGED <<crcIdx, crcPc>>
                ELSE /\ crcBit' = 0
                     /\ IF crcIdx < Len(buf)
                          THEN /\ crcIdx' = crcIdx + 1
                               /\ crcByte' = buf[crcIdx + 1]
                               /\ UNCHANGED crcPc
                          ELSE /\ crcPc' = "final"
                               /\ crcByte' = s[2]
                               /\ UNCHANGED crcIdx
    /\ UNCHANGED <<buf, crcOut, frame, flipped, stripOut>>
    /\ UNCHANGED <<execVars, decVars, drvVars>>

\* line 809
CrcReturn ==
    /\ crcPc = "final"
    /\ crcOut' = NotMask16(crcReg)
    /\ crcPc' = "returned"
    /\ UNCHANGED <<buf, crcReg, crcIdx, crcBit, crcByte, frame, flipped, stripOut>>
    /\ UNCHANGED <<execVars, decVars, drvVars>>

\* line 729: the CRC is appended as word2struct gives it
AppendCrc ==
    /\ crcPc = "returned"
    /\ frame' = buf \o word2struct(crcOut)
    /\ crcPc' = "framed"
    /\ UNCHANGED <<buf, crcReg, crcIdx, crcBit, crcByte, crcOut, flipped, stripOut>>
    /\ UNCHANGED <<execVars, decVars, drvVars>>

\* the bits of byte x, least significant first
RECURSIVE BitsOf(_, _)
BitsOf(x, n) == IF n = 0 THEN <<>> ELSE <<x % 2>> \o BitsOf(x \div 2, n - 1)

RECURSIVE Pow2(_)
Pow2(n) == IF n = 0 THEN 1 ELSE 2 * Pow2(n - 1)

\* s with bit k (0-based, bit k % 8 of byte k \div 8) inverted
FlipBitOf(s, k) ==
    LET i == (k \div 8) + 1
        w == Pow2(k % 8)
        b == s[i]
    IN  [s EXCEPT ![i] = IF (b \div w) % 2 = 1 THEN b - w ELSE b + w]

\* the line corrupts one bit of the frame before it is read
FlipBit ==
    /\ crcPc = "framed"
    /\ flipped = -1
    /\ \E k \in 0 .. (8 * Len(frame) - 1) :
         /\ frame' = FlipBitOf(frame, k)
         /\ flipped' = k
    /\ UNCHANGED <<buf, crcPc, crcReg, crcIdx, crcBit, crcByte, crcOut, stripOut>>
    /\ UNCHANGED <<execVars, decVars, drvVars>>

\* lines 811-831 applied to the frame
Strip ==
    /\ crcPc = "framed"
    /\ stripOut' = strip_crc16(frame)
    /\ crcPc' = "stripped"
    /\ UNCHANGED <<buf, crcReg, crcIdx, crcBit, crcByte, crcOut, frame, flipped>>
    /\ UNCHANGED <<execVars, decVars, drvVars>>

NextCrc == CrcEntry \/ CrcBit \/ CrcReturn \/ AppendCrc \/ FlipBit \/ Strip

SpecCrc == InitCrc /\ [][NextCrc]_vars

-----------------------------------------------------------------------------
(* The response decoders of AuroraInverter. A payload v is a Python 2 str, *)
(* as serial_port.read returns it: v[i] is a one character str, ord(v[i])  *)
(* its byte value, and a slice never fails.                                *)

Whitespace == {9, 10, 11, 12, 13, 32}
Digits     == 48 .. 57
Signs      == {43, 45}

RECURSIVE LStrip(_)
LStrip(s) ==
    IF s # <<>> /\ Head(s) \in Whitespace THEN LStrip(Tail(s)) ELSE s

RECURSIVE RStrip(_)
RStrip(s) ==
    IF s # <<>> /\ s[Len(s)] \in Whitespace
      THEN RStrip(SubSeq(s, 1, Len(s) - 1))
      ELSE s

RECURSIVE DecimalValue(_)
DecimalValue(s) ==
    IF s = <<>> THEN 0
    ELSE 10 * DecimalValue(SubSeq(s, 1, Len(s) - 1)) + (s[Len(s)] - 48)

\* int(s) of Python 2 on a str: white space around, an optional sign, then
\* decimal digits only; anything else is a ValueError
PyIntOfStr(s) ==
    LET core   == RStrip(LStrip(s))
        signed == core # <<>> /\ Head(core) \in Signs
        digits == IF signed THEN Tail(core) ELSE core
    IN  IF digits # <<>> /\ \A i \in 1 .. Len(digits) : digits[i] \in Digits
          THEN Return(PyInt(IF signed /\ Head(core) = 45
                              THEN 0 - DecimalValue(digits)
                              ELSE DecimalValue(digits)))
          ELSE Raise("ValueError")

\* struct.unpack('!f', s)[0]: s must hold exactly 4 bytes; the float is given
\* by its sign, biased exponent and mantissa fields, most significant byte first
StructUnpackFloat(s) ==
    IF Len(s) # 4 THEN Raise("struct.error")
    ELSE Return(PyFloat([sign     |-> s[1] \div 128,
                         exponent |-> 2 * (s[1] % 128) + (s[2] \div 128),
                         mantissa |-> 65536 * (s[2] % 128) + 256 * s[3] + s[4]]))

AllAbsent == ResponseTuple(None, None, None)

\* the try / except (IndexError, TypeError) every decoder is wrapped in
CatchIndexType(r) ==
    IF r.kind = "raise" /\ r.err \in {"IndexError", "TypeError"}
      THEN Return(AllAbsent)
      ELSE r

\* ord(v[i]) (0-based)
OrdAt(v, i) == IF i < Len(v) THEN Return(PyInt(v[i + 1])) ELSE Raise("IndexError")

\* the header bytes ord(v[0]), ord(v[1]), then the data: the first error wins
WithStatesDropsGlobal(v, data) ==
    LET ts == OrdAt(v, 0)
    IN  IF ts.kind = "raise" THEN ts
        ELSE IF data.kind = "raise" THEN data
        ELSE Return(ResponseTuple(ts.value, None, data.value))

WithStates(v, data) ==
    LET ts == OrdAt(v, 0)
        gs == OrdAt(v, 1)
    IN  IF ts.kind = "raise" THEN ts
        ELSE IF gs.kind = "raise" THEN gs
        ELSE IF data.kind = "raise" THEN data
        ELSE Return(ResponseTuple(ts.value, gs.value, data.value))

_dec_state(v) == Return(None)

_dec_ascii(v) == CatchIndexType(Return(ResponseTuple(None, None, PyStr(Slice(v, 0, 6)))))

_dec_ascii_and_stateAllFour(v) ==
    CatchIndexType(WithStates(v, Return(PyStr(Slice(v, 2, 6)))))

_dec_ascii_and_state(v) ==
    CatchIndexType(WithStates(v, Return(PyStr(Slice(v, 2, 4)))))

_dec_float(v) ==
    CatchIndexType(WithStates(v, StructUnpackFloat(Slice(v, 2, Len(v)))))

_dec_week_yearSwapped(v) ==
    LET week == PyIntOfStr(Slice(v, 2, 4))
        year == PyIntOfStr(Slice(v, 4, 6))
    IN  CatchIndexType(WithStates(v,
            IF week.kind = "raise" THEN week
            ELSE IF year.kind = "raise" THEN year
            ELSE Return(PyTuple(<<year.value, week.value>>))))

_dec_week_year(v) ==
    LET week == PyIntOfStr(Slice(v, 2, 4))
        year == PyIntOfStr(Slice(v, 4, 6))
    IN  CatchIndexType(WithStates(v,
            IF week.kind = "raise" THEN week
            ELSE IF year.kind = "raise" THEN year
            ELSE Return(PyTuple(<<week.value, year.value>>))))

_dec_intLowByteFirst(v) ==
    LET b2 == OrdAt(v, 2)
        b3 == OrdAt(v, 3)
        b4 == OrdAt(v, 4)
        b5 == OrdAt(v, 5)
    IN  CatchIndexType(
            IF b2.kind = "raise" THEN b2
            ELSE IF b3.kind = "raise" THEN b3
            ELSE IF b4.kind = "raise" THEN b4
            ELSE IF b5.kind = "raise" THEN b5
            ELSE WithStates(v, Return(PyInt(b5.value.v * 65536 + b4.value.v * 256
                                             + b3.value.v + b2.value.v))))

_dec_int(v) ==
    LET b2 == OrdAt(v, 2)
        b3 == OrdAt(v, 3)
        b4 == OrdAt(v, 4)
        b5 == OrdAt(v, 5)
    IN  CatchIndexType(
            IF b2.kind = "raise" THEN b2
            ELSE IF b3.kind = "raise" THEN b3
            ELSE IF b4.kind = "raise" THEN b4
            ELSE IF b5.kind = "raise" THEN b5
            ELSE WithStates(v, Return(PyInt(b2.value.v * 16777216 + b3.value.v * 65536
                                             + b4.value.v * 256 + b5.value.v))))

EpochOffset == 946648800

_dec_ts(v) ==
    LET device == _dec_int(v).value.v[3]
    IN  CatchIndexType(WithStates(v,
            IF device = None THEN Raise("TypeError")
            ELSE Return(PyInt(device.v + EpochOffset))))

\* [int(a) for a in v[2:6]], a one character str each: the first failure wins
RECURSIVE IntOfEach(_)
IntOfEach(s) ==
    IF s = <<>> THEN Return(PyTuple(<<>>))
    ELSE LET first == PyIntOfStr(<<Head(s)>>)
             rest  == IntOfEach(Tail(s))
         IN  IF first.kind = "raise" THEN first
             ELSE IF rest.kind = "raise" THEN rest
             ELSE Return(PyTuple(<<first.value>> \o rest.value.v))

_dec_alarms(v) ==
    LET _alarms == IntOfEach(Slice(v, 2, 6))
    IN  CatchIndexType(IF _alarms.kind = "raise" THEN _alarms
                       ELSE WithStates(v, _alarms))

DecoderNames == {"_dec_state", "_dec_ascii", "_dec_ascii_and_state", "_dec_float",
                 "_dec_week_year", "_dec_ts", "_dec_int", "_dec_alarms"}

\* decode_fn(v) for the decoder named fn
Decode(fn, v) ==
    CASE fn = "_dec_state"           -> _dec_state(v)
      [] fn = "_dec_ascii"           -> _dec_ascii(v)
      [] fn = "_dec_ascii_and_state" -> _dec_ascii_and_state(v)
      [] fn = "_dec_float"           -> _dec_float(v)
      [] fn = "_dec_week_year"       -> _dec_week_year(v)
      [] fn = "_dec_ts"              -> _dec_ts(v)
      [] fn = "_dec_int"             -> _dec_int(v)
      [] fn = "_dec_alarms"          -> _dec_alarms(v)

-----------------------------------------------------------------------------
(* The decoder specification: one decoder applied to one payload.          *)

\* byte values the payloads are drawn from: NUL, 1, a blank, '0' and '5'
DecBytes == {0, 1, 32, 48, 53}

\* the length of a response without its CRC bytes
PayloadLen == 6

\* further full payloads: the largest bytes, the week and year '05' '17', the
\* float 1.0 (the first is left out for _dec_ts, whose sum would leave the
\* integers of the model)
WidePayloads ==
    {<<255, 255, 127, 255, 255, 255>>, <<0, 0, 48, 53, 49, 55>>, <<1, 2, 63, 128, 0, 0>>}

InitDec ==
    /\ decFn \in DecoderNames
    /\ decIn \in SeqsUpTo(DecBytes, PayloadLen)
                  \cup (IF decFn = "_dec_ts"
                          THEN WidePayloads \ {<<255, 255, 127, 255, 255, 255>>}
                          ELSE WidePayloads)
    /\ decOut = Pending
    /\ CrcIdle /\ ExecIdle /\ DrvIdle

\* line 740: decode_fn(_resp)
RunDecoder ==
    /\ decOut = Pending
    /\ decOut' = Decode(decFn, decIn)
    /\ UNCHANGED <<decFn, decIn>>
    /\ UNCHANGED <<crcVars, execVars, drvVars>>

NextDec == RunDecoder

SpecDec == InitDec /\ [][NextDec]_vars

-----------------------------------------------------------------------------
(* AuroraInverter.commands: reading -> command code, sub-command code and  *)
(* decoder.                                                                *)

Cmd(c, sc, f) == [cmd |-> c, sub |-> sc, fn |-> f]

commands ==
    [ state           |-> Cmd(50, 0, "_dec_state"),
      partNumber      |-> Cmd(52, 0, "_dec_ascii"),
      version         |-> Cmd(58, 0, "_dec_ascii_and_state"),
      gridV           |-> Cmd(59, 1, "_dec_float"),
      gridC           |-> Cmd(59, 2, "_dec_float"),
      gridP           |-> Cmd(59, 3, "_dec_float"),
      frequency       |-> Cmd(59, 4, "_dec_float"),
      bulkV           |-> Cmd(59, 5, "_dec_float"),
      leakDcC         |-> Cmd(59, 6, "_dec_float"),
      leakC           |-> Cmd(59, 7, "_dec_float"),
      str1P           |-> Cmd(59, 8, "_dec_float"),
      str2P           |-> Cmd(59, 9, "_dec_float"),
      inverterT       |-> Cmd(59, 21, "_dec_float"),
      boosterT        |-> Cmd(59, 22, "_dec_float"),
      str1V           |-> Cmd(59, 23, "_dec_float"),
      str1C           |-> Cmd(59, 25, "_dec_float"),
      str2V           |-> Cmd(59, 26, "_dec_float"),
      str2C           |-> Cmd(59, 27, "_dec_float"),
      gridDcV         |-> Cmd(59, 28, "_dec_float"),
      gridDcFreq      |-> Cmd(59, 29, "_dec_float"),
      isoR            |-> Cmd(59, 30, "_dec_float"),
      bulkDcV         |-> Cmd(59, 31, "_dec_float"),
      gridAvV         |-> Cmd(59, 32, "_dec_float"),
      bulkMidV        |-> Cmd(59, 33, "_dec_float"),
      gridNV          |-> Cmd(59, 34, "_dec_float"),
      dayPeakP        |-> Cmd(59, 35, "_dec_float"),
      peakP           |-> Cmd(59, 36, "_dec_float"),
      gridNPhV        |-> Cmd(59, 38, "_dec_float"),
      serialNumber    |-> Cmd(63, 0, "_dec_ascii"),
      manufactureDate |-> Cmd(65, 0, "_dec_week_year"),
      timeDate        |-> Cmd(70, 0, "_dec_ts"),
      firmwareRelease |-> Cmd(72, 0, "_dec_ascii_and_state"),
      dayEnergy       |-> Cmd(78, 0, "_dec_int"),
      weekEnergy      |-> Cmd(78, 1, "_dec_int"),
      monthEnergy     |-> Cmd(78, 3, "_dec_int"),
      yearEnergy      |-> Cmd(78, 4, "_dec_int"),
      totalEnergy     |-> Cmd(78, 5, "_dec_int"),
      partialEnergy   |-> Cmd(78, 6, "_dec_int"),
      lastAlarms      |-> Cmd(86, 0, "_dec_alarms") ]

-----------------------------------------------------------------------------
(* AuroraInverter.pad, write, read, read_with_crc and send_cmd_with_crc.   *)

\* struct.Struct('4B').pack(a, b, c, d): every value must be a byte
Pack4B(a, b, c, d) ==
    IF \A x \in {a, b, c, d} : x \in 0 .. 255
      THEN Return(PyStr(<<a, b, c, d>>))
      ELSE Raise("struct.error")

RECURSIVE Nulls(_)
Nulls(n) == IF n <= 0 THEN <<>> ELSE <<0>> \o Nulls(n - 1)

\* pad(buf, size): PAD holds size nulls, so its guard size > len(PAD) never holds
padNoNulls(b, size) == Return(PyStr(b))

pad(b, size) ==
    LET PAD == Nulls(size)
    IN  IF size > Len(PAD) THEN Raise("DataFormatError")
        ELSE Return(PyStr(b \o Slice(PAD, 0, size - Len(b))))

\* the size commands are padded to
CommandSize == 8
\* the number of bytes read_with_crc reads
ResponseSize == 8

\* self.commands[reading]: a key the dict does not hold is a KeyError
LookupWithDefault(rd) ==
    IF rd \in DOMAIN commands THEN Return(commands[rd]) ELSE Return(commands.state)

Lookup(rd) ==
    IF rd \in DOMAIN commands THEN Return(commands[rd]) ELSE Raise("KeyError")

\* lines 720-729: the command with its CRC for a reading
CommandFrame(rd, addr, glob) ==
    LET c  == Lookup(rd)
        _b == IF c.kind = "raise" THEN c
              ELSE Pack4B(addr, c.value.cmd, c.value.sub, glob)
        _b_padded == IF _b.kind = "raise" THEN _b ELSE pad(_b.value.v, CommandSize)
    IN  IF _b_padded.kind = "raise" THEN _b_padded
        ELSE Return(PyStr(_b_padded.value.v \o word2struct(crc16(_b_padded.value.v))))

\* line 731: for count in xrange(max_tries) goes on while count < max_tries
LoopGoesOnOneMore(c, tries) == c <= tries

LoopGoesOn(c, tries) == c < tries

\* serial_port.write or serial_port.read raising serial.SerialException
SerialException == [t |-> "SerialException", v |-> 0]

\* what serial_port.write(data) can do: return None (old pyserial), return the
\* number of bytes it sent, or raise SerialException
WriteResults(data) ==
    {None, SerialException, PyInt(Len(data)), PyInt(Len(data) - 1), PyInt(0)}

\* lines 650-672: AuroraInverter.write, given what serial_port.write did
InverterWrite(data, res) ==
    IF res = SerialException THEN Raise("WeeWxIOError")
    ELSE IF res # None /\ res.v # Len(data) THEN Raise("WeeWxIOError")
    ELSE Return(None)

\* lines 674-701: AuroraInverter.read, given what serial_port.read did:
\* res is SerialException or the str that arrived
InverterRead(n, res) ==
    IF res = SerialException THEN Raise("SerialException")
    ELSE IF Len(res.v) # n THEN Raise("WeeWxIOError")
    ELSE Return(res)

\* lines 747-765: read_with_crc
read_with_crc(n, res) ==
    LET _response == InverterRead(n, res)
    IN  IF _response.kind = "raise" THEN _response
        ELSE strip_crc16(_response.value.v)

\* line 741: what except weewx.WeeWxIOError catches; weewx.CRCError is
\* declared in weewx as a subclass of weewx.WeeWxIOError
CaughtOnlyTransport(e) == e = "WeeWxIOError"

CaughtByExcept(e) == e \in {"WeeWxIOError", "CRCError"}

\* lines 741-743: after except ... pass the loop goes on at its top, where the
\* next pass writes the command again
AfterCaughtReadsAgain == "sleep"

AfterCaught == "loop"

\* ---- the request specification

\* payloads the inverter answers with
RespPayloads == {<<0, 6, 48, 53, 49, 55>>, <<0, 6, 0, 0, 1, 0>>, <<1, 2, 63, 128, 0, 0>>}
\* bits of a response the line may corrupt
RespFlips == {0, 63}
GoodResponses == {p \o word2struct(crc16(p)) : p \in RespPayloads}
BadCrcResponses ==
    {FlipBitOf(p \o word2struct(crc16(p)), k) : p \in {<<0, 6, 0, 0, 1, 0>>}, k \in RespFlips}
\* what serial_port.read(8) can do
ReadResults ==
    {SerialException}
      \cup {PyStr(r) : r \in {<<>>, <<0, 6, 48>>} \cup GoodResponses \cup BadCrcResponses}

ReadingNames == DOMAIN commands \cup {"noSuchReading"}
AddressValues == {2, 255, 256}
GlobalValues == {0, 1, 255}

InitExec ==
    /\ pc = "call"
    /\ reading \in ReadingNames
    /\ globall \in GlobalValues
    /\ address \in AddressValues
    /\ max_tries \in 0 .. MaxTries
    /\ count = 0 /\ cmdFrame = <<>> /\ nWrites = 0 /\ nReads = 0
    /\ lastWrite = <<>> /\ lastIo = "-" /\ resp = <<>> /\ crcRejects = 0
    /\ caught = "-" /\ outcome = Pending
    /\ CrcIdle /\ DecIdle /\ DrvIdle

\* lines 720-729: look the reading up and assemble the command
BuildCommand ==
    /\ pc = "call"
    /\ \E f \in {CommandFrame(reading, address, globall)} :
         IF f.kind = "raise"
           THEN /\ outcome' = f
                /\ pc' = "done"
                /\ UNCHANGED cmdFrame
           ELSE /\ cmdFrame' = f.value.v
                /\ pc' = "loop"
                /\ UNCHANGED outcome
    /\ UNCHANGED <<reading, globall, address, max_tries, count, nWrites, nReads,
                   lastWrite, lastIo, resp, crcRejects, caught>>
    /\ UNCHANGED <<crcVars, decVars, drvVars>>

\* lines 731-742: the next pass of the loop writes the command
AttemptWrite ==
    /\ pc = "loop"
    /\ LoopGoesOn(count, max_tries)
    /\ \E res \in WriteResults(cmdFrame) :
       \E w \in {InverterWrite(cmdFrame, res)} :
             /\ nWrites' = nWrites + 1
             /\ lastWrite' = cmdFrame
             /\ IF w.kind = "return"
                  THEN /\ pc' = "sleep"
                       /\ lastIo' = "write"
                       /\ UNCHANGED <<count, caught, outcome>>
                  ELSE IF CaughtByExcept(w.err)
                    THEN /\ pc' = AfterCaught
                         /\ count' = count + 1
                         /\ caught' = w.err
                         /\ lastIo' = "write failed"
                         /\ UNCHANGED outcome
                    ELSE /\ pc' = "done"
                         /\ outcome' = w
                         /\ lastIo' = "write failed"
                         /\ UNCHANGED <<count, caught>>
    /\ UNCHANGED <<reading, globall, address, max_tries, cmdFrame, nReads, resp,
                   crcRejects>>
    /\ UNCHANGED <<crcVars, decVars, drvVars>>

\* lines 736-742: after the command delay the response is read, checked and decoded
AttemptRead ==
    /\ pc = "sleep"
    /\ \E res \in ReadResults :
       \E r \in {read_with_crc(ResponseSize, res)} :
         LET rejected == /\ res # SerialException
                         /\ Len(res.v) = ResponseSize
                         /\ r.kind = "raise"
         IN  /\ nReads' = nReads + 1
             /\ crcRejects' = IF rejected THEN crcRejects + 1 ELSE crcRejects
             /\ IF r.kind = "return"
                  THEN /\ resp' = res.v
                       /\ outcome' = Decode(commands[reading].fn, r.value.v)
                       /\ pc' = "done"
                       /\ lastIo' = "read"
                       /\ UNCHANGED <<count, caught>>
                  ELSE IF CaughtByExcept(r.err)
                    THEN /\ pc' = AfterCaught
                         /\ count' = count + 1
                         /\ caught' = r.err
                         /\ lastIo' = IF rejected THEN "read rejected" ELSE "read failed"
                         /\ UNCHANGED <<resp, outcome>>
                    ELSE /\ pc' = "done"
                         /\ outcome' = r
                         /\ lastIo' = IF rejected THEN "read rejected" ELSE "read failed"
                         /\ UNCHANGED <<count, caught, resp>>
    /\ UNCHANGED <<reading, globall, address, max_tries, cmdFrame, nWrites, lastWrite>>
    /\ UNCHANGED <<crcVars, decVars, drvVars>>

\* lines 744-745: the loop ran out
Exhausted ==
    /\ pc = "loop"
    /\ ~LoopGoesOn(count, max_tries)
    /\ outcome' = Raise("WeeWxIOError")
    /\ pc' = "done"
    /\ lastIo' = "gave up"
    /\ UNCHANGED <<reading, globall, address, max_tries, count, cmdFrame, nWrites,
                   nReads, lastWrite, resp, crcRejects, caught>>
    /\ UNCHANGED <<crcVars, decVars, drvVars>>

Next == BuildCommand \/ AttemptWrite \/ AttemptRead \/ Exhausted

Spec == InitExec /\ [][Next]_vars

-----------------------------------------------------------------------------
(* AuroraDriver: __init__ with openPort and _setup, genLoopPackets, and     *)
(* closePort as the weewx engine calls it on a driver it holds.             *)

\* polls that yield a packet, at most
MaxPolls == 2

\* AuroraDriver.do_cmd(reading): the ways send_cmd_with_crc(reading) with its
\* default address and max_tries can end: the attempts run out, the read
\* raises SerialException, or a response arrives and is decoded
do_cmd(rd) ==
    IF rd \notin DOMAIN commands THEN {Raise("KeyError")}
    ELSE {Raise("WeeWxIOError"), Raise("SerialException")}
           \cup {Decode(commands[rd].fn, p) : p \in RespPayloads}

\* r.data for the outcome r of do_cmd: None has no attribute data
DataOf(r) ==
    IF r.kind = "raise" THEN r
    ELSE IF r.value.t # "ResponseTuple" THEN Raise("AttributeError")
    ELSE Return(r.value.v[3])

\* the readings _setup requests, in its order
SetupReadings ==
    <<"partNumber", "version", "serialNumber", "manufactureDate", "firmwareRelease">>

\* self.manifest as a FieldMap with dayEnergy and lastAlarms builds it
Manifest == <<"dayEnergy", "lastAlarms">>

\* get_raw_packet from the reading k of the manifest on, _packet holding the
\* data of the readings before: the first request that raises ends it,
\* otherwise the dict of the data is returned
RECURSIVE get_raw_packet(_, _)
get_raw_packet(k, _packet) ==
    IF k > Len(Manifest) THEN {Return(PyDict(_packet))}
    ELSE LET ds == {DataOf(r) : r \in do_cmd(Manifest[k])}
         IN  {d \in ds : d.kind = "raise"}
               \cup UNION {get_raw_packet(k + 1, DictSet(_packet, Manifest[k], d.value)) :
                              d \in {x \in ds : x.kind = "return"}}

\* self.field_map as the same FieldMap builds it: loop packet field -> reading
field_map ==
    {[k |-> "dayEnergy", v |-> "dayEnergy"], [k |-> "lastAlarms", v |-> "lastAlarms"]}

\* lines 409-427: process_raw_packet (no field of the map is isoR)
process_raw_packet(raw_packet) ==
    {[k |-> f.k, v |-> IF HasKey(raw_packet, f.v) THEN DictGet(raw_packet, f.v) ELSE None] :
        f \in field_map}

\* lines 509-520: calculate_energy without the guard on a decreasing counter
calculate_energyNoGuard(newtotal, oldtotal) ==
    IF newtotal # None /\ oldtotal # None
      THEN PyInt(newtotal.v - oldtotal.v)
      ELSE None

\* lines 509-520: calculate_energy
calculate_energy(newtotal, oldtotal) ==
    IF newtotal # None /\ oldtotal # None
      THEN IF newtotal.v >= oldtotal.v
             THEN PyInt(newtotal.v - oldtotal.v)
             ELSE None
      ELSE None

\* lines 374-390: the fields added to a packet before it is yielded (dateTime
\* and usUnits, which no reading decides, are left out): the packet, or the
\* KeyError of packet['dayEnergy']
LoopPacket(_packet, last) ==
    IF _packet = {} THEN Return(PyDict(_packet))
    ELSE IF ~HasKey(_packet, "dayEnergy") THEN Raise("KeyError")
    ELSE Return(PyDict(DictSet(_packet, "energy",
                   calculate_energy(DictGet(_packet, "dayEnergy"), last))))

\* line 362: for count in range(self.max_tries) goes on while count < max_tries
OuterLoopGoesOnOneMore(c, tries) == c <= tries

OuterLoopGoesOn(c, tries) == c < tries

\* lines 475-480: MANIFEST of get_cumulated_energy: period -> reading
MANIFEST ==
    {[k |-> "day", v |-> "dayEnergy"], [k |-> "week", v |-> "weekEnergy"],
     [k |-> "month", v |-> "monthEnergy"], [k |-> "year", v |-> "yearEnergy"],
     [k |-> "total", v |-> "totalEnergy"], [k |-> "partial", v |-> "partialEnergy"]}

\* the values get_cumulated_energy is called with: None, the six periods and
\* a name that is no period
PeriodValues ==
    {None} \cup {PyName(e.k) : e \in MANIFEST} \cup {PyName("hour")}

\* line 395: what except IOError catches: weewx.WeeWxIOError, its subclass
\* weewx.CRCError and serial.SerialException are IOErrors
IsIOError(e) == e \in {"WeeWxIOError", "CRCError", "SerialException"}

\* line 646: the bare except of close_port catches every error
close_portSuppressesNothing(e) == FALSE

close_portSuppresses(e) == TRUE

\* the cancel character close_port writes: '\n'
Newline == <<10>>

InitDrv ==
    /\ drvPc = "new"
    /\ drvMaxTries \in 0 .. MaxTries
    /\ port = "none" /\ nOpens = 0 /\ nCloses = 0 /\ setupIdx = 0
    /\ loopCount = 0 /\ nPolls = 0 /\ drvOutcome = Pending /\ closePc = "-"
    /\ nCancels = 0 /\ cancelData = <<>> /\ cancelWrite = Pending
    /\ closeOut = Pending
    /\ nFailed = 0 /\ failsAtYield = 0 /\ packet = None /\ last_energy = None
    /\ cumPc = "-" /\ cumPeriod = None /\ cumEnergy = {} /\ cumAsked = {}
    /\ cumOut = Pending
    /\ CrcIdle /\ ExecIdle /\ DecIdle

pollVars == <<nFailed, failsAtYield, packet, last_energy>>
cumVars  == <<cumPc, cumPeriod, cumEnergy, cumAsked, cumOut>>

\* lines 313-330 and 631-638: __init__ as far as openPort: serial.Serial opens
\* the port or raises SerialException
DrvOpenPort ==
    /\ drvPc = "new"
    /\ \E opened \in BOOLEAN :
         IF opened
           THEN /\ port' = "open"
                /\ nOpens' = nOpens + 1
                /\ drvPc' = "setup"
                /\ UNCHANGED drvOutcome
           ELSE /\ drvPc' = "failed"
                /\ drvOutcome' = Raise("SerialException")
                /\ UNCHANGED <<port, nOpens>>
    /\ UNCHANGED <<drvMaxTries, nCloses, setupIdx, loopCount, nPolls, closePc,
                   nCancels, cancelData, cancelWrite, closeOut>>
    /\ UNCHANGED <<pollVars, cumVars>>
    /\ UNCHANGED <<crcVars, execVars, decVars>>

\* lines 522-534: the next request of _setup; an error leaves __init__, and
\* after the last request __init__ runs to its end (lines 335-340), where
\* last_energy is set to None
DrvSetupRequest ==
    /\ drvPc = "setup"
    /\ \E r \in do_cmd(SetupReadings[setupIdx + 1]) :
       \E d \in {DataOf(r)} :
         IF d.kind = "raise"
           THEN /\ drvPc' = "failed"
                /\ drvOutcome' = d
                /\ UNCHANGED setupIdx
           ELSE /\ setupIdx' = setupIdx + 1
                /\ drvPc' = IF setupIdx + 1 = Len(SetupReadings)
                              THEN "ready" ELSE "setup"
                /\ UNCHANGED drvOutcome
    /\ last_energy' = None
    /\ UNCHANGED <<drvMaxTries, port, nOpens, nCloses, loopCount, nPolls, closePc,
                   nCancels, cancelData, cancelWrite, closeOut>>
    /\ UNCHANGED <<nFailed, failsAtYield, packet, cumVars>>
    /\ UNCHANGED <<crcVars, execVars, decVars>>

\* lines 352-361: genLoopPackets is entered
DrvStartLoop ==
    /\ drvPc = "ready" /\ closePc = "-" /\ cumPc = "-"
    /\ drvPc' = "polling"
    /\ loopCount' = 0
    /\ UNCHANGED <<drvMaxTries, port, nOpens, nCloses, setupIdx, nPolls, drvOutcome,
                   closePc, nCancels, cancelData, cancelWrite, closeOut>>
    /\ UNCHANGED <<pollVars, cumVars>>
    /\ UNCHANGED <<crcVars, execVars, decVars>>

\* lines 362-397: one pass of the inner loop: the inverter is polled; a packet
\* is yielded, or an IOError ends the inner loop and the outer loop goes on
\* with the next count, or another error leaves genLoopPackets
DrvPoll ==
    /\ drvPc = "polling" /\ closePc = "-"
    /\ OuterLoopGoesOn(loopCount, drvMaxTries)
    /\ \E raw \in get_raw_packet(1, {}) :
       \E y \in {IF raw.kind = "raise" THEN raw
                 ELSE LoopPacket(process_raw_packet(raw.value.v), last_energy)} :
         IF y.kind = "return"
           THEN /\ nPolls < MaxPolls
                /\ nPolls' = nPolls + 1
                /\ packet' = y.value
                /\ last_energy' = IF HasKey(y.value.v, "dayEnergy")
                                    THEN DictGet(y.value.v, "dayEnergy")
                                    ELSE None
                /\ failsAtYield' = nFailed
                /\ UNCHANGED <<drvPc, loopCount, drvOutcome, nFailed>>
           ELSE IF IsIOError(y.err)
             THEN /\ loopCount' = loopCount + 1
                  /\ nFailed' = nFailed + 1
                  /\ UNCHANGED <<drvPc, nPolls, drvOutcome, failsAtYield, packet,
                                 last_energy>>
             ELSE /\ drvPc' = "raised"
                  /\ drvOutcome' = y
                  /\ UNCHANGED <<loopCount, nPolls, pollVars>>
    /\ UNCHANGED <<drvMaxTries, port, nOpens, nCloses, setupIdx, closePc, nCancels,
                   cancelData, cancelWrite, closeOut>>
    /\ UNCHANGED cumVars
    /\ UNCHANGED <<crcVars, execVars, decVars>>

\* lines 398-399: the outer loop ran out
DrvRetriesExceeded ==
    /\ drvPc = "polling" /\ closePc = "-"
    /\ ~OuterLoopGoesOn(loopCount, drvMaxTries)
    /\ drvPc' = "raised"
    /\ drvOutcome' = Raise("RetriesExceeded")
    /\ UNCHANGED <<drvMaxTries, port, nOpens, nCloses, setupIdx, loopCount, nPolls,
                   closePc, nCancels, cancelData, cancelWrite, closeOut>>
    /\ UNCHANGED <<pollVars, cumVars>>
    /\ UNCHANGED <<crcVars, execVars, decVars>>

\* lines 450-486: get_cumulated_energy(period) is called on a constructed
\* driver: with None it goes on to the loop over MANIFEST, with a key of
\* MANIFEST it calls do_cmd(period), with anything else it returns None
DrvCumulatedEnergy ==
    /\ drvPc = "ready" /\ closePc = "-" /\ cumPc = "-"
    /\ \E period \in PeriodValues :
         /\ cumPeriod' = period
         /\ cumEnergy' = {}
         /\ IF period = None
              THEN /\ cumPc' = "running"
                   /\ UNCHANGED <<cumAsked, cumOut>>
              ELSE IF HasKey(MANIFEST, period.v)
                THEN \E r \in do_cmd(period.v) :
                     \E d \in {DataOf(r)} :
                       /\ cumPc' = "done"
                       /\ cumAsked' = {period.v}
                       /\ cumOut' = IF d.kind = "raise" THEN d
                                    ELSE Return(PyDict(DictSet({}, period.v, d.value)))
                ELSE /\ cumPc' = "done"
                     /\ cumOut' = Return(None)
                     /\ UNCHANGED cumAsked
    /\ UNCHANGED <<drvPc, drvMaxTries, port, nOpens, nCloses, setupIdx, loopCount,
                   nPolls, drvOutcome, closePc, nCancels, cancelData, cancelWrite,
                   closeOut>>
    /\ UNCHANGED pollVars
    /\ UNCHANGED <<crcVars, execVars, decVars>>

\* lines 481-482 and 486: one pass of the loop over MANIFEST.iteritems(), in
\* whatever order the dict gives its items; after the last one _energy is
\* returned
DrvCumulatedRequest ==
    /\ cumPc = "running"
    /\ \E item \in {e \in MANIFEST : ~HasKey(cumEnergy, e.k)} :
       \E r \in do_cmd(item.v) :
       \E d \in {DataOf(r)} :
         /\ cumAsked' = cumAsked \cup {item.v}
         /\ IF d.kind = "raise"
              THEN /\ cumOut' = d
                   /\ cumPc' = "done"
                   /\ cumEnergy' = {}
              ELSE IF Cardinality(cumEnergy) + 1 = Cardinality(MANIFEST)
                THEN /\ cumOut' = Return(PyDict(DictSet(cumEnergy, item.k, d.value)))
                     /\ cumPc' = "done"
                     /\ cumEnergy' = {}
                ELSE /\ cumEnergy' = DictSet(cumEnergy, item.k, d.value)
                     /\ UNCHANGED <<cumPc, cumOut>>
    /\ UNCHANGED cumPeriod
    /\ UNCHANGED <<drvPc, drvMaxTries, port, nOpens, nCloses, setupIdx, loopCount,
                   nPolls, drvOutcome, closePc, nCancels, cancelData, cancelWrite,
                   closeOut>>
    /\ UNCHANGED pollVars
    /\ UNCHANGED <<crcVars, execVars, decVars>>

\* lines 347-350 and 643-647: closePort is called on a constructed driver;
\* close_port tries write('\n') and passes over what it raises
DrvCancelWrite ==
    /\ drvPc \in {"ready", "polling", "raised"}
    /\ port = "open" /\ closePc = "-" /\ cumPc # "running"
    /\ \E res \in WriteResults(Newline) :
       \E w \in {InverterWrite(Newline, res)} :
         /\ nCancels' = nCancels + 1
         /\ cancelData' = Newline
         /\ cancelWrite' = w
         /\ IF w.kind = "raise" /\ ~close_portSuppresses(w.err)
              THEN /\ closePc' = "done"
                   /\ closeOut' = w
              ELSE /\ closePc' = "cancelled"
                   /\ UNCHANGED closeOut
    /\ UNCHANGED <<drvPc, drvMaxTries, port, nOpens, nCloses, setupIdx, loopCount,
                   nPolls, drvOutcome>>
    /\ UNCHANGED <<pollVars, cumVars>>
    /\ UNCHANGED <<crcVars, execVars, decVars>>

\* line 648: self.serial_port.close()
DrvRelease ==
    /\ closePc = "cancelled"
    /\ port' = "closed"
    /\ nCloses' = nCloses + 1
    /\ closeOut' = Return(None)
    /\ closePc' = "done"
    /\ UNCHANGED <<drvPc, drvMaxTries, nOpens, setupIdx, loopCount, nPolls,
                   drvOutcome, nCancels, cancelData, cancelWrite>>
    /\ UNCHANGED <<pollVars, cumVars>>
    /\ UNCHANGED <<crcVars, execVars, decVars>>

NextDrv ==
    \/ DrvOpenPort \/ DrvSetupRequest \/ DrvStartLoop \/ DrvPoll
    \/ DrvRetriesExceeded \/ DrvCumulatedEnergy \/ DrvCumulatedRequest
    \/ DrvCancelWrite \/ DrvRelease

SpecDrv == InitDrv /\ [][NextDrv]_vars

-----------------------------------------------------------------------------
(* The reference CRC of the protocol document, on bit sets: the register  *)
(* is the set of the positions 0..15 of its 1 bits.                       *)

RefSeed == 0 .. 15
RefPoly == {3, 10, 15}
RefShiftRight(r) == {i - 1 : i \in r \ {0}}
RefXor(r, q) == {i \in 0 .. 15 : (i \in r) # (i \in q)}
RefStep(r, bit) ==
    IF ((0 \in r) # (bit = 1))
      THEN RefXor(RefShiftRight(r), RefPoly)
      ELSE RefShiftRight(r)

\* the bits of the byte string b in the order crc16 consumes them
RECURSIVE RefBits(_)
RefBits(b) == IF b = <<>> THEN <<>> ELSE BitsOf(Head(b), 8) \o RefBits(Tail(b))

\* the register after the first n bits of the bit string bits
RECURSIVE RefRun(_, _)
RefRun(bits, n) ==
    IF n = 0 THEN RefSeed ELSE RefStep(RefRun(bits, n - 1), bits[n])

RECURSIVE RefSum(_, _)
RefSum(r, i) ==
    IF i > 15 THEN 0 ELSE (IF i \in r THEN Pow2(i) ELSE 0) + RefSum(r, i + 1)
RefValue(r) == RefSum(r, 0)

RefComplement(r) == (0 .. 15) \ r
RefCrc16(b) == RefValue(RefComplement(RefRun(RefBits(b), 8 * Len(b))))

\* bits crc16 has consumed when it stands in the loop
CrcBitsDone ==
    IF crcPc = "entry" THEN 0
    ELSE IF crcPc = "loop" THEN 8 * (crcIdx - 1) + crcBit
    ELSE 8 * Len(buf)

\* C1: round trip: strip_crc16 applied to P followed by word2struct(crc16(P))
\* returns exactly P and raises no error, for every byte string P.
C1_RoundTrip ==
    (crcPc = "stripped" /\ flipped = -1) => stripOut = Return(PyStr(buf))

C1_Witness ==
    /\ crcPc = "stripped" /\ flipped = -1 /\ Len(buf) >= 2
    /\ stripOut.kind = "return"
    /\ frame[Len(frame) - 1] # frame[Len(frame)]

\* C2: with any single bit of a validly checksummed frame flipped, payload or
\* CRC bytes, strip_crc16 fails with the checksum error and returns no payload.
C2_SingleBitFlipDetected ==
    (crcPc = "stripped" /\ flipped # -1) => stripOut = Raise("CRCError")

C2_Witness ==
    /\ crcPc = "stripped" /\ stripOut.kind = "raise"
    /\ Len(buf) >= 2 /\ flipped >= 0 /\ flipped < 8 * Len(buf)

\* C3: crc16 is the reference algorithm: seeded with 0xFFFF, 8 steps per byte,
\* result the complement of the register masked to 16 bits; the register and
\* the result stay within 0..0xFFFF at every step; the empty input gives 0.
C3_Crc16IsReference ==
    /\ crcReg \in 0 .. 65535
    /\ crcOut \in 0 .. 65535
    /\ crcPc \in {"entry", "loop", "final"}
         => crcReg = RefValue(RefRun(RefBits(buf), CrcBitsDone))
    /\ crcPc = "returned"
         => /\ crcOut = RefCrc16(buf)
            /\ crc16(buf) = RefCrc16(buf)
            /\ (buf = <<>> => crcOut = 0)

C3_Witness ==
    /\ crcPc = "returned" /\ Len(buf) >= 2 /\ crcOut = RefCrc16(buf)
    /\ crcOut # 0

\* the command frame the protocol asks for: 8 bytes and their CRC, low byte first
WireFrame(rd, addr, glob) ==
    LET body == <<addr, commands[rd].cmd, commands[rd].sub, glob, 0, 0, 0, 0>>
        crc  == crc16(body)
    IN  body \o <<crc % 256, crc \div 256>>

\* C4: every write send_cmd_with_crc performs carries exactly 10 bytes:
\* [address, commandCode, subCommandCode, globalFlag, 0, 0, 0, 0] followed by
\* the CRC16 of those 8 bytes, low byte then high byte.
C4_WriteCarriesFrame ==
    nWrites > 0 =>
        /\ reading \in DOMAIN commands
        /\ Len(lastWrite) = 10
        /\ lastWrite = WireFrame(reading, address, globall)

C4_Witness ==
    /\ nWrites = 2 /\ reading = "gridNPhV" /\ address = 255 /\ globall = 1
    /\ lastWrite = WireFrame("gridNPhV", 255, 1)

\* C5: when every attempt fails with the transport I/O error the call makes
\* exactly max_tries write attempts, then fails with the exhausted-retries
\* error, and returns no value.
C5_ExhaustedAfterMaxTries ==
    /\ (pc \in {"loop", "sleep"} /\ crcRejects = 0) =>
           /\ count <= max_tries
           /\ nWrites = (IF pc = "sleep" THEN count + 1 ELSE count)
           /\ nWrites <= max_tries
    /\ (pc = "done" /\ cmdFrame # <<>> /\ crcRejects = 0 /\ count = max_tries) =>
           /\ nWrites = max_tries
           /\ outcome = Raise("WeeWxIOError")
           /\ lastIo = "gave up"

C5_Witness ==
    /\ pc = "done" /\ max_tries = 3 /\ count = 3 /\ nWrites = 3 /\ nReads = 2
    /\ crcRejects = 0 /\ outcome = Raise("WeeWxIOError") /\ lastIo = "gave up"

\* an attempt wrote, read 8 bytes and passed the CRC check
AttemptSucceeded == pc = "done" /\ lastIo = "read"

\* C6: when the first k-1 attempts fail with the transport I/O error and
\* attempt k writes, reads 8 bytes and passes the CRC check, exactly k writes
\* occur and the call returns the decoder's result for that response.
C6_ReturnsOnKthAttempt ==
    (AttemptSucceeded /\ crcRejects = 0) =>
        /\ nWrites = count + 1
        /\ nReads <= nWrites
        /\ outcome.kind = "return"
        /\ outcome = Decode(commands[reading].fn, DropLast2(resp))

\* C7: once strip_crc16 rejects a response the call propagates the checksum
\* error at once and performs no further write or read.
C7_ChecksumErrorNotRetried ==
    crcRejects > 0 => (pc = "done" /\ outcome = Raise("CRCError"))

\* C7 as amended: a rejected response is swallowed like a transport I/O error
\* (CRCError is a WeeWxIOError): the attempt counts as failed, the loop goes on
\* to the next attempt while attempts remain, and the call never ends with the
\* checksum error.
C7_ChecksumErrorRetried ==
    /\ [][crcRejects' > crcRejects =>
            (pc' = "loop" /\ count' = count + 1 /\ caught' = "CRCError"
             /\ outcome' = Pending)]_vars
    /\ [](outcome # Raise("CRCError"))
    /\ []((crcRejects > 0 /\ pc = "done" /\ lastIo = "gave up") => nWrites = max_tries)

C7_Witness ==
    /\ crcRejects = 1 /\ pc = "done" /\ lastIo = "read" /\ nWrites = 2
    /\ outcome.kind = "return"

\* C8: a reading name absent from the registry fails at once with the
\* unknown-reading error (KeyError), is not retried, and nothing is written
\* to or read from the transport.
C8_UnknownReading ==
    reading \notin DOMAIN commands =>
        /\ pc \in {"call", "done"}
        /\ nWrites = 0 /\ nReads = 0 /\ count = 0 /\ lastWrite = <<>>
        /\ (pc = "done" => outcome = Raise("KeyError"))

C8_Witness ==
    /\ reading = "noSuchReading" /\ pc = "done" /\ max_tries = 3
    /\ outcome = Raise("KeyError") /\ nWrites = 0

\* C9: for every reading of the registry a call ends by returning a
\* ResponseTuple of three fields or by raising an error, never anything else.
C9_ResponseTupleOrError ==
    (pc = "done" /\ reading \in DOMAIN commands) =>
        \/ outcome.kind = "raise"
        \/ /\ outcome.kind = "return"
           /\ outcome.value.t = "ResponseTuple"
           /\ Len(outcome.value.v) = 3

\* the decoders of the registry that are written
WrittenDecoders == DecoderNames \ {"_dec_state"}

\* C10: every decoder given a payload of length 0..5 returns the all-absent
\* ResponseTuple (None, None, None) and never raises.
C10_ShortPayloadAllAbsent ==
    (decOut # Pending /\ decFn \in WrittenDecoders /\ Len(decIn) < PayloadLen)
        => decOut = Return(AllAbsent)

\* a decoder was applied to a full payload of 6 bytes
DecodedFull(fn) == decOut # Pending /\ decFn = fn /\ Len(decIn) = PayloadLen

\* the value the bytes of s stand for, most significant byte first
RECURSIVE BigEndian(_)
BigEndian(s) ==
    IF s = <<>> THEN 0
    ELSE 256 * BigEndian(SubSeq(s, 1, Len(s) - 1)) + s[Len(s)]

\* the number two ASCII decimal digits stand for
TwoDigits(hi, lo) == 10 * (hi - 48) + (lo - 48)

\* C11: every decoder given a 6 byte payload with a data byte that cannot be
\* interpreted under its shape (a byte of the week or year field that is no
\* decimal digit) returns the all-absent ResponseTuple and never raises.
C11_UninterpretableAllAbsent ==
    (decOut # Pending /\ decFn \in WrittenDecoders /\ Len(decIn) = PayloadLen) =>
        /\ decOut.kind = "return"
        /\ (decFn = "_dec_week_year" /\ \E i \in 3 .. 6 : decIn[i] \notin Digits)
             => decOut = Return(AllAbsent)

\* C12: in every ResponseTuple a decoder returns the transmission state and
\* the global state are both present or both absent: _dec_ascii returns both
\* absent, every other decoder on a decoded 6 byte payload returns byte 0 and
\* byte 1, each in 0..255.
C12_StatesTogether ==
    (decOut.kind = "return" /\ decOut.value.t = "ResponseTuple") =>
        LET ts == decOut.value.v[1]
            gs == decOut.value.v[2]
        IN  /\ (ts = None) <=> (gs = None)
            /\ decFn = "_dec_ascii" => (ts = None /\ gs = None)
            /\ (decFn # "_dec_ascii" /\ Len(decIn) = PayloadLen
                  /\ decOut # Return(AllAbsent))
                 => /\ ts = PyInt(decIn[1]) /\ gs = PyInt(decIn[2])
                    /\ ts.v \in 0 .. 255 /\ gs.v \in 0 .. 255

C12_Witness ==
    /\ DecodedFull("_dec_float") /\ decIn = <<1, 2, 63, 128, 0, 0>>
    /\ decOut.kind = "return"
    /\ decOut.value.v[1] = PyInt(1) /\ decOut.value.v[2] = PyInt(2)

\* C13: _dec_int on a 6 byte payload b0..b5 returns data = b2*2^24 + b3*2^16
\* + b4*2^8 + b5, a value in 0..2^32-1 ([0,0,0,0,1,0] gives 256), with
\* transmission state b0 and global state b1.
C13_DecIntValue ==
    DecodedFull("_dec_int") =>
        LET value == BigEndian(SubSeq(decIn, 3, 6))
        IN  /\ decOut = Return(ResponseTuple(PyInt(decIn[1]), PyInt(decIn[2]),
                                             PyInt(value)))
            /\ value >= 0
            /\ value \div 65536 <= 65535
            /\ decIn = <<0, 0, 0, 0, 1, 0>> => decOut.value.v[3] = PyInt(256)

C13_Witness ==
    /\ DecodedFull("_dec_int") /\ decIn = <<255, 255, 127, 255, 255, 255>>
    /\ decOut = Return(ResponseTuple(PyInt(255), PyInt(255), PyInt(2147483647)))

\* C14: _dec_week_year on a 6 byte payload whose bytes 2..5 are ASCII decimal
\* digits returns data = (week, year), week the number of the digits in bytes
\* 2,3 and year that of bytes 4,5 ([0,0,'0','5','1','7'] gives (5,17)), with
\* transmission state b0 and global state b1.
C14_WeekYearOfDigits ==
    (DecodedFull("_dec_week_year") /\ \A i \in 3 .. 6 : decIn[i] \in Digits) =>
        decOut = Return(ResponseTuple(PyInt(decIn[1]), PyInt(decIn[2]),
                    PyTuple(<<PyInt(TwoDigits(decIn[3], decIn[4])),
                              PyInt(TwoDigits(decIn[5], decIn[6]))>>)))

C14_Witness ==
    /\ DecodedFull("_dec_week_year") /\ decIn = <<0, 0, 48, 53, 49, 55>>
    /\ decOut = Return(ResponseTuple(PyInt(0), PyInt(0),
                                     PyTuple(<<PyInt(5), PyInt(17)>>)))

\* the seconds from the Unix epoch to midnight 1 January 2000 UTC: 10957 days
Year2000Offset == 10957 * 86400

\* C15: _dec_ts on a 6 byte payload returns data = the _dec_int value of the
\* payload + the seconds from the Unix epoch to midnight 1 January 2000
\* (946684800), so a device time of 0 decodes to that midnight.
C15_TsFromYear2000 ==
    DecodedFull("_dec_ts") =>
        decOut = Return(ResponseTuple(PyInt(decIn[1]), PyInt(decIn[2]),
                    PyInt(BigEndian(SubSeq(decIn, 3, 6)) + Year2000Offset)))

\* C16: _dec_alarms on a 6 byte payload b0..b5 returns data = the 4-tuple
\* (b2, b3, b4, b5) of the alarm codes in wire order, with transmission
\* state b0 and global state b1.
C16_AlarmsAreTheBytes ==
    DecodedFull("_dec_alarms") =>
        decOut = Return(ResponseTuple(PyInt(decIn[1]), PyInt(decIn[2]),
                    PyTuple(<<PyInt(decIn[3]), PyInt(decIn[4]),
                              PyInt(decIn[5]), PyInt(decIn[6])>>)))

C18_TransportFailureRetried ==
    lastIo \in {"write failed", "read failed"} =>
        (pc = "loop" /\ caught = "WeeWxIOError" /\ outcome = Pending)

\* C19: close_port on an open channel first attempts a single byte cancel
\* write and then releases the channel; whatever the write raises is
\* suppressed: the channel is released and close_port reports no error,
\* whether the write succeeds or fails.
C19_ClosePortSuppresses ==
    /\ closePc = "cancelled" =>
           /\ port = "open" /\ nCloses = 0
           /\ nCancels = 1 /\ Len(cancelData) = 1
    /\ closePc = "done" =>
           /\ port = "closed" /\ nCloses = 1
           /\ nCancels = 1 /\ Len(cancelData) = 1
           /\ closeOut = Return(None)
    /\ closeOut.kind # "raise"

C19_Witness ==
    /\ closePc = "done" /\ cancelWrite = Raise("WeeWxIOError")
    /\ port = "closed" /\ closeOut = Return(None)

\* C20: once the channel has been opened it is released exactly once on every
\* way the caller can exit: when a request of _setup fails in __init__ after
\* openPort, and when genLoopPackets ends with an error, the channel does not
\* stay open and is not closed twice.
C20_ReleasedExactlyOnce ==
    /\ nCloses <= 1
    /\ (drvPc \in {"failed", "raised"} /\ nOpens > 0) =>
           (port = "closed" /\ nCloses = 1)

\* C21: building a command frame with any of address, command code, sub
\* command code or global flag outside 0..255 fails with the format error
\* (DataFormatError) and nothing is written; with all four inside 0..255 no
\* format error occurs.
C21_OutOfRangeIsFormatError ==
    (pc # "call" /\ reading \in DOMAIN commands) =>
        IF \A x \in {address, commands[reading].cmd, commands[reading].sub, globall} :
               x \in 0 .. 255
          THEN cmdFrame # <<>> /\ outcome # Raise("DataFormatError")
          ELSE /\ pc = "done" /\ outcome = Raise("DataFormatError")
               /\ nWrites = 0 /\ nReads = 0

\* C23: within one call the transport events are strictly ordered: each
\* attempt is one write of the frame, then the delay, then one read; a read
\* never happens without a preceding write in the same attempt, and the next
\* attempt's write starts only after the previous attempt's write or read has
\* failed, so at most one request is in flight.
C23_EventsOrdered ==
    /\ [][nReads' # nReads =>
            (/\ nReads' = nReads + 1 /\ nWrites' = nWrites
             /\ pc = "sleep" /\ lastIo = "write"
             /\ nWrites = count + 1)]_vars
    /\ [][nWrites' # nWrites =>
            (/\ nWrites' = nWrites + 1 /\ nReads' = nReads
             /\ lastIo \in {"-", "write failed", "read failed", "read rejected"}
             /\ nWrites = count
             /\ lastWrite' = cmdFrame /\ Len(cmdFrame) = 10)]_vars
    /\ [](nReads <= nWrites /\ nWrites - count \in {0, 1})
    /\ [](pc = "sleep" <=> (lastIo = "write" /\ outcome = Pending))

C23_Witness ==
    /\ pc = "done" /\ lastIo = "read" /\ nWrites = 3 /\ nReads = 2 /\ count = 2
    /\ crcRejects = 1

\* the keys of a dict
KeysOf(d) == {e.k : e \in d}

\* C22: get_cumulated_energy(period) with a valid period key returns a dict
\* holding that period's cumulated energy read from the matching reading;
\* with None it returns all six periods; with any other value it returns
\* None and sends no command to the inverter.
C22_CumulatedEnergy ==
    cumPc = "done" =>
        IF cumPeriod = None
          THEN cumOut.kind = "return" =>
                   /\ KeysOf(cumOut.value.v) = KeysOf(MANIFEST)
                   /\ cumAsked = {e.v : e \in MANIFEST}
          ELSE IF HasKey(MANIFEST, cumPeriod.v)
            THEN /\ cumAsked = {DictGet(MANIFEST, cumPeriod.v)}
                 /\ cumOut # Raise("KeyError")
                 /\ cumOut.kind = "return" =>
                        KeysOf(cumOut.value.v) = {cumPeriod.v}
            ELSE cumOut = Return(None) /\ cumAsked = {}

\* C24: genLoopPackets counts failed polls cumulatively: the count is never
\* reset by a successful poll, the generator raises RetriesExceeded as soon as
\* the polls that ended in an I/O error number max_tries, also with yielded
\* packets between the failures, and before that it keeps polling.
C24_FailuresCumulative ==
    /\ [](loopCount = nFailed /\ failsAtYield <= nFailed)
    /\ [][nPolls' > nPolls => (loopCount' = loopCount /\ nFailed' = nFailed)]_vars
    /\ [][(nPolls' > nPolls \/ nFailed' > nFailed) => nFailed < drvMaxTries]_vars
    /\ [](drvOutcome = Raise("RetriesExceeded") => nFailed = drvMaxTries)
    /\ []((drvPc = "polling" /\ nFailed < drvMaxTries) => drvOutcome = Pending)

C24_Witness ==
    /\ drvOutcome = Raise("RetriesExceeded") /\ drvMaxTries = 2 /\ nFailed = 2
    /\ nPolls = 2 /\ failsAtYield = 1

\* the dayEnergy of a yielded packet, None before the first
DayEnergyOf(p) == IF p = None THEN None ELSE DictGet(p.v, "dayEnergy")

\* C25: the energy field of each yielded packet is never negative: it is the
\* packet's dayEnergy minus that of the packet yielded before when both are
\* present and the counter did not decrease, and None for the first packet,
\* when either is absent and when the counter decreased; after each yielded
\* packet last_energy is that packet's dayEnergy.
C25_EnergyNeverNegative ==
    /\ [](packet # None =>
            /\ DictGet(packet.v, "energy") # None => DictGet(packet.v, "energy").v >= 0
            /\ last_energy = DayEnergyOf(packet))
    /\ [][nPolls' > nPolls =>
            LET new    == DayEnergyOf(packet')
                old    == DayEnergyOf(packet)
                energy == DictGet(packet'.v, "energy")
            IN  /\ last_energy' = new
                /\ IF new # None /\ old # None /\ new.v >= old.v
                     THEN energy = PyInt(new.v - old.v)
                     ELSE energy = None
                /\ nPolls = 0 => energy = None]_vars

C25_Witness ==
    /\ nPolls = 2 /\ packet # None
    /\ DictGet(packet.v, "energy") = PyInt(808792375 - 256)
    /\ last_energy = PyInt(808792375)

=============================================================================
